---- MODULE Spec2Model ----
(***************************************************************************)
(* The upload page of the drag-and-drop site.                              *)
(*                                                                         *)
(*   - the server handlers loader and action of app/routes/_index.tsx and  *)
(*     of the second route module, src/unnamed/part_000;                   *)
(*   - the client state of the Index component: loaderData, files,         *)
(*     filteredFiles, fileStatus and the intervals of                      *)
(*     startFileStatusTimer;                                               *)
(*   - the S3 bucket the handlers talk to.                                 *)
(*                                                                         *)
(* A handler is cut at its await: one step runs it from its entry to the   *)
(* storage call it awaits (or to its return), a second step is that call   *)
(* settling and the handler returning.  The storage service carries out a  *)
(* command atomically when it settles, and a failed command changes        *)
(* nothing.  deleted, shownAfter and the fields after and cancelled are    *)
(* history: they record what has happened and steer nothing.               *)
(*                                                                         *)
(* Five specifications share the definitions:                              *)
(*   Spec        the page in use: uploads and deletes from the page, the   *)
(*               loader, and the list the component shows;                 *)
(*   SpecAction  the action of _index.tsx under every form a request can   *)
(*               carry;                                                    *)
(*   SpecPart000 the loader and the action of the second route module;     *)
(*   SpecTimer   startFileStatusTimer, its ticks and its cancel handle;    *)
(*   SpecSort    the filteredFiles memo over every list that can arrive.   *)
(* The timers touch fileStatus only and nothing else reads or writes it.   *)
(* Every object ListObjects returns carries a LastModified.                *)
(***************************************************************************)
EXTENDS Integers, Sequences, FiniteSets, TLC

VARIABLES
    bucket,        \* the S3 bucket: a set of objects [name, size, lastModified]
    clock,         \* the storage service's clock (stamps LastModified)
    requests,      \* the action requests, in order of submission
    loads,         \* the loader invocations, in order of invocation
    loaderData,    \* what useLoaderData() returns to Index
    files,         \* Index: const [files, setFiles] = useState(...)
    filteredFiles, \* Index: the useMemo over files
    deleted,       \* history: names whose delete succeeded, not uploaded since
    shownAfter,    \* history: `deleted` as of the invocation of the refresh now shown
    timers,        \* the intervals startFileStatusTimer has created
    fileStatus     \* Index: const [fileStatus, setFileStatus] = useState(0)

vars == <<bucket, clock, requests, loads, loaderData, files, filteredFiles,
          deleted, shownAfter, timers, fileStatus>>

transferVars == <<bucket, clock, requests, loads, loaderData, files,
                  filteredFiles, deleted, shownAfter>>

-----------------------------------------------------------------------------
(* Bounds *)

MaxRequests == 2
MaxMutations == 2
MaxLoads == 1
MaxClock == 1
MaxTimers == 2
MaxStamp == 2
Radix == 2

-----------------------------------------------------------------------------
(* Values *)

NULL == "<null>"
Names == {"a.txt", "b.txt"}
KeyOrder == <<"a.txt", "b.txt">>
SortNames == Names \cup {"c.txt"}

Truthy(s) == s \notin {NULL, ""}

MAX_FILE_SIZE == 5 * 1024 * 1024

Sizes == {MAX_FILE_SIZE, MAX_FILE_SIZE + 1}

NoFile == [name |-> NULL, size |-> 0]
Files == {NoFile} \cup [name : Names, size : Sizes]

Forms == [file : Files, fileName : {NULL, ""} \cup Names, action : {NULL, "delete"}]

NoForm == [file |-> NoFile, fileName |-> NULL, action |-> NULL]

\* The forms of the page that change the bucket: a dropped file, a delete
\* button.
PageForms ==
    {[file |-> f, fileName |-> NULL, action |-> NULL] : f \in Files \ {NoFile}}
    \cup {[file |-> NoFile, fileName |-> n, action |-> "delete"] : n \in Names}

Outcomes == {"ok", "CredentialsError", "Error"}

NoOp == [kind |-> "none", key |-> NULL, size |-> 0]
NoResponse == [status |-> 0, error |-> "", thrown |-> FALSE]

\* json(body, {status})
json(status, error) == [status |-> status, error |-> error, thrown |-> FALSE]
\* throw new Response(body, {status})
throwResponse(status, error) == [status |-> status, error |-> error, thrown |-> TRUE]

-----------------------------------------------------------------------------
(* Dates on the wire: json() serialises a Date as its ISO string, and the    *)
(* component reads it back with new Date(s).getTime().  A string is the      *)
(* pair of its two digits in base Radix, most significant first.             *)

toISOString(t) == <<t \div Radix, t % Radix>>

getTime(s) == s[1] * Radix + s[2]

-----------------------------------------------------------------------------
(* The storage collaborator *)

putObject(b, key, size, now) ==
    {o \in b : o.name # key} \cup {[name |-> key, size |-> size, lastModified |-> now]}

deleteObject(b, key) == {o \in b : o.name # key}

RECURSIVE listFrom(_, _)
listFrom(b, keys) ==
    IF keys = <<>> THEN <<>>
    ELSE LET hit == {o \in b : o.name = Head(keys)}
         IN  (IF hit = {} THEN <<>> ELSE <<CHOOSE o \in hit : TRUE>>)
             \o listFrom(b, Tail(keys))

\* ListObjects answers in key order.
listObjects(b) == listFrom(b, KeyOrder)

-----------------------------------------------------------------------------
(* Index: the list shown *)

\* A comparator with the operands exchanged: oldest first.
compareAscending(a, b) == getTime(a.lastModified) - getTime(b.lastModified)

\* (a, b) => dateB - dateA
compare(a, b) == getTime(b.lastModified) - getTime(a.lastModified)

\* Array.prototype.sort is stable: x goes behind every element that does not
\* compare greater than it.
RECURSIVE insert(_, _)
insert(x, s) ==
    IF s = <<>> THEN <<x>>
    ELSE IF compare(Head(s), x) > 0 THEN <<x>> \o s
    ELSE <<Head(s)>> \o insert(x, Tail(s))

RECURSIVE sortFrom(_, _)
sortFrom(s, acc) ==
    IF s = <<>> THEN acc ELSE sortFrom(Tail(s), insert(Head(s), acc))

\* [...files].sort(compare)
sort(s) == sortFrom(s, <<>>)

\* data.Contents?.map(file => ({name, size, lastModified})) || [], serialised
fileList(contents) ==
    [k \in DOMAIN contents |->
        [name |-> contents[k].name,
         size |-> contents[k].size,
         lastModified |-> toISOString(contents[k].lastModified)]]

NoData == [hasFiles |-> FALSE, files |-> <<>>, error |-> ""]

\* An effect that adds the loaded records to the list instead of replacing it.
setFilesAppending(ld, cur) ==
    IF ld.hasFiles
    THEN cur \o SelectSeq(ld.files, LAMBDA f : \A k \in DOMAIN cur : cur[k].name # f.name)
    ELSE cur

\* if (loaderData.files) setFiles(loaderData.files): an array, empty or not,
\* is truthy; only a missing list keeps the old one.
setFiles(ld, cur) == IF ld.hasFiles THEN ld.files ELSE cur

-----------------------------------------------------------------------------
(* action, app/routes/_index.tsx *)

deleteParams(fileName) == [kind |-> "delete", key |-> fileName, size |-> 0]
downloadParams(fileName) == [kind |-> "download", key |-> fileName, size |-> 0]
uploadParams(file) == [kind |-> "upload", key |-> file.name, size |-> file.size]

awaiting(op) == [pc |-> "InProgress", op |-> op, response |-> NoResponse]
returning(pc, response) == [pc |-> pc, op |-> NoOp, response |-> response]

\* A dispatch that looks at the file field first.
dispatchFileFirst(form) ==
    IF form.file # NoFile THEN
        IF form.file.size > MAX_FILE_SIZE
        THEN returning("Failed", json(400, "File size exceeds 5MB limit"))
        ELSE awaiting(uploadParams(form.file))
    ELSE IF form.action = "delete" /\ Truthy(form.fileName) THEN
        awaiting(deleteParams(form.fileName))
    ELSE IF Truthy(form.fileName) THEN
        awaiting(downloadParams(form.fileName))
    ELSE returning("Failed", json(400, "No file uploaded or specified for download"))

\* The if / else-if chain of action, up to the call each branch awaits.
dispatch(form) ==
    IF form.action = "delete" /\ Truthy(form.fileName) THEN
        awaiting(deleteParams(form.fileName))
    ELSE IF Truthy(form.fileName) THEN
        awaiting(downloadParams(form.fileName))
    ELSE IF form.file # NoFile THEN
        IF form.file.size > MAX_FILE_SIZE
        THEN returning("Failed", json(400, "File size exceeds 5MB limit"))
        ELSE awaiting(uploadParams(form.file))
    ELSE returning("Failed", json(400, "No file uploaded or specified for download"))

\* Request i leaves the handler's first step as d says: awaiting a call, its
\* locals alive, or returned, its frame gone.
step(i, d) ==
    requests' = [requests EXCEPT ![i] =
        [route |-> @.route,
         form |-> IF d.pc = "InProgress" THEN @.form ELSE NoForm,
         pc |-> d.pc, op |-> d.op,
         calls |-> IF d.op.kind = "none" THEN 0 ELSE 1, response |-> d.response]]

\* Request i returns.
return(i, pc, response) ==
    requests' = [requests EXCEPT ![i] =
        [@ EXCEPT !.form = NoForm, !.pc = pc, !.op = NoOp, !.response = response]]

inFlight(i, op) ==
    \E j \in DOMAIN requests :
        j # i /\ requests[j].pc = "InProgress" /\ requests[j].op.kind = op.kind
              /\ requests[j].op.key = op.key

\* An action that turns away a request whose (targetName, kind) is in flight.
actionKeyed(i) ==
    /\ i \in DOMAIN requests
    /\ requests[i].route = "_index"
    /\ requests[i].pc = "Pending"
    /\ LET d == dispatch(requests[i].form)
       IN  IF d.pc = "InProgress" /\ inFlight(i, d.op)
           THEN step(i, returning("Failed", json(409, "OperationAlreadyInProgress")))
           ELSE step(i, d)
    /\ UNCHANGED <<bucket, clock, loads, loaderData, files, filteredFiles,
                   deleted, shownAfter, timers, fileStatus>>

\* action, from its entry to the await of its branch (or its return).
action(i) ==
    /\ i \in DOMAIN requests
    /\ requests[i].route = "_index"
    /\ requests[i].pc = "Pending"
    /\ step(i, dispatch(requests[i].form))
    /\ UNCHANGED <<bucket, clock, loads, loaderData, files, filteredFiles,
                   deleted, shownAfter, timers, fileStatus>>

\* The storage service carries out a delete: the key is gone from then on.
deleteDone(key) ==
    /\ bucket' = deleteObject(bucket, key)
    /\ deleted' = deleted \cup {key}
    /\ UNCHANGED <<clock, loads>>

\* The storage service carries out an upload: the object is there from then
\* on, so the name stops counting as deleted, also for the refreshes under way.
uploadDone(op) ==
    /\ bucket' = putObject(bucket, op.key, op.size, clock)
    /\ clock' = IF clock < MaxClock THEN clock + 1 ELSE clock
    /\ deleted' = deleted \ {op.key}
    /\ loads' = [k \in DOMAIN loads |-> [loads[k] EXCEPT !.after = @ \ {op.key}]]

\* The try / catch around the awaited call of request i: the service's
\* outcome becomes the response returned.
settle(i, outcome) ==
    LET r == requests[i]
    IN  CASE r.op.kind = "delete" ->
               IF outcome = "ok"
               THEN /\ deleteDone(r.op.key)
                    /\ return(i, "Succeeded", json(200, ""))
               ELSE /\ return(i, "Failed", json(500, "Failed to delete file"))
                    /\ UNCHANGED <<bucket, clock, loads, deleted>>
         [] r.op.kind = "download" ->
               /\ IF outcome = "ok"
                  THEN return(i, "Succeeded", json(200, ""))
                  ELSE return(i, "Failed", json(500, "Failed to generate pre-signed URL"))
               /\ UNCHANGED <<bucket, clock, loads, deleted>>
         [] r.op.kind = "upload" ->
               IF outcome = "ok"
               THEN /\ uploadDone(r.op)
                    /\ return(i, "Succeeded", json(200, ""))
               ELSE /\ return(i, "Failed", json(500, "File upload failed"))
                    /\ UNCHANGED <<bucket, clock, loads, deleted>>

\* An action that sends a failed command once more before it gives up.
actionResumeRetrying(i, outcome) ==
    /\ i \in DOMAIN requests
    /\ requests[i].route = "_index"
    /\ requests[i].pc = "InProgress"
    /\ IF outcome # "ok" /\ requests[i].calls < 2
       THEN /\ requests' = [requests EXCEPT ![i].calls = @ + 1]
            /\ UNCHANGED <<bucket, clock, loads, deleted>>
       ELSE settle(i, outcome)
    /\ UNCHANGED <<loaderData, files, filteredFiles, shownAfter, timers, fileStatus>>

\* action, from the settling of the awaited call to its return.
actionResume(i, outcome) ==
    /\ i \in DOMAIN requests
    /\ requests[i].route = "_index"
    /\ requests[i].pc = "InProgress"
    /\ settle(i, outcome)
    /\ UNCHANGED <<loaderData, files, filteredFiles, shownAfter, timers, fileStatus>>

-----------------------------------------------------------------------------
(* action, src/unnamed/part_000 *)

action_part_000(i) ==
    /\ i \in DOMAIN requests
    /\ requests[i].route = "part_000"
    /\ requests[i].pc = "Pending"
    /\ LET file == requests[i].form.file
       IN  IF file = NoFile
           THEN step(i, returning("Failed", json(400, "No file uploaded")))
           ELSE step(i, awaiting(uploadParams(file)))
    /\ UNCHANGED <<bucket, clock, loads, loaderData, files, filteredFiles,
                   deleted, shownAfter, timers, fileStatus>>

actionResume_part_000(i, outcome) ==
    /\ i \in DOMAIN requests
    /\ requests[i].route = "part_000"
    /\ requests[i].pc = "InProgress"
    /\ IF outcome = "ok"
       THEN /\ uploadDone(requests[i].op)
            /\ return(i, "Succeeded", json(200, ""))
       ELSE /\ return(i, "Failed", json(500, "File upload failed"))
            /\ UNCHANGED <<bucket, clock, loads, deleted>>
    /\ UNCHANGED <<loaderData, files, filteredFiles, shownAfter, timers, fileStatus>>

\* A request arrives at a route's action.
submit(route, form, max) ==
    /\ Len(requests) < max
    /\ requests' = Append(requests,
           [route |-> route, form |-> form, pc |-> "Pending", op |-> NoOp,
            calls |-> 0, response |-> NoResponse])
    /\ UNCHANGED <<bucket, clock, loads, loaderData, files, filteredFiles,
                   deleted, shownAfter, timers, fileStatus>>

-----------------------------------------------------------------------------
(* loader, app/routes/_index.tsx *)

invoke(route, pc, data, response) ==
    /\ Len(loads) < MaxLoads
    /\ loads' = Append(loads,
           [route |-> route, pc |-> pc, data |-> data, response |-> response,
            after |-> IF pc = "InProgress" THEN deleted ELSE {}])
    /\ UNCHANGED <<bucket, clock, requests, loaderData, files, filteredFiles,
                   deleted, shownAfter, timers, fileStatus>>

\* Load k returns or throws.
leave(k, pc, data, response) ==
    /\ loads' = [loads EXCEPT ![k] =
           [@ EXCEPT !.pc = pc, !.data = data, !.response = response]]
    /\ UNCHANGED <<bucket, clock, requests, loaderData, files, filteredFiles,
                   deleted, shownAfter, timers, fileStatus>>

listed(b) == [hasFiles |-> TRUE, files |-> fileList(listObjects(b)), error |-> ""]
failed(message) == [hasFiles |-> TRUE, files |-> <<>>, error |-> message]

\* loader, up to the await of ListObjectsCommand.
loader ==
    invoke("_index", "InProgress", NoData, NoResponse)

\* loader, from the settling of ListObjectsCommand to its return.
loaderResume(k, outcome) ==
    /\ k \in DOMAIN loads
    /\ loads[k].route = "_index"
    /\ loads[k].pc = "InProgress"
    /\ IF outcome = "ok"
       THEN leave(k, "Returned", listed(bucket), json(200, ""))
       ELSE IF outcome = "CredentialsError"
       THEN leave(k, "Returned",
                  failed("Invalid AWS credentials provided. Please check your configuration."),
                  json(401, "Invalid AWS credentials provided. Please check your configuration."))
       ELSE leave(k, "Returned", failed(outcome), json(500, outcome))

-----------------------------------------------------------------------------
(* loader, src/unnamed/part_000 *)

\* With a fileName in the query the handler logs it and falls off its end;
\* without one it awaits ListObjectsV2Command.
loader_part_000(fileName) ==
    IF Truthy(fileName)
    THEN invoke("part_000", "Returned", NoData, NoResponse)
    ELSE invoke("part_000", "InProgress", NoData, NoResponse)

loaderResume_part_000(k, outcome) ==
    /\ k \in DOMAIN loads
    /\ loads[k].route = "part_000"
    /\ loads[k].pc = "InProgress"
    /\ IF outcome = "ok"
       THEN leave(k, "Returned", listed(bucket), json(200, ""))
       ELSE leave(k, "Thrown", NoData, throwResponse(500, "Error listing files"))

-----------------------------------------------------------------------------
(* Index, app/routes/_index.tsx *)

\* The data of load k reaches the component: useLoaderData() changes, the
\* effect sets files, the memo is computed again.
Index(k) ==
    /\ k \in DOMAIN loads
    /\ loads[k].route = "_index"
    /\ loads[k].pc = "Returned"
    /\ loaderData' = loads[k].data
    /\ files' = setFiles(loads[k].data, files)
    /\ filteredFiles' = sort(files')
    /\ shownAfter' = loads[k].after
    /\ loads' = [loads EXCEPT ![k] =
           [@ EXCEPT !.pc = "Applied", !.data = NoData, !.response = NoResponse, !.after = {}]]
    /\ UNCHANGED <<bucket, clock, requests, deleted, timers, fileStatus>>

\* A navigation brings a list: any list a loader can send, in any order.
Lists ==
    UNION {{s \in [1..n -> [name : SortNames, size : {MAX_FILE_SIZE},
                            lastModified : {toISOString(t) : t \in 0..MaxStamp}]] :
               \A p, q \in 1..n : p # q => s[p].name # s[q].name} : n \in 0..Cardinality(SortNames)}

navigate(list) ==
    /\ loaderData' = [hasFiles |-> TRUE, files |-> list, error |-> ""]
    /\ files' = setFiles(loaderData', files)
    /\ filteredFiles' = sort(files')
    /\ UNCHANGED <<bucket, clock, requests, loads, deleted, shownAfter, timers, fileStatus>>

-----------------------------------------------------------------------------
(* startFileStatusTimer, app/routes/_index.tsx *)

steps == <<1, 2, 3, 4, 5>>

startFileStatusTimer ==
    /\ Len(timers) < MaxTimers
    /\ timers' = Append(timers, [index |-> 0, active |-> TRUE, cancelled |-> FALSE])
    /\ UNCHANGED <<fileStatus, bucket, clock, requests, loads, loaderData, files,
                   filteredFiles, deleted, shownAfter>>

\* An interval callback that starts over instead of clearing itself.
tickWrapping(t) ==
    /\ t \in DOMAIN timers
    /\ timers[t].active
    /\ fileStatus' = steps[timers[t].index + 1]
    /\ timers' = [timers EXCEPT ![t].index = (@ + 1) % Len(steps)]
    /\ UNCHANGED transferVars

\* The interval callback of timer t fires.
tick(t) ==
    /\ t \in DOMAIN timers
    /\ timers[t].active
    /\ fileStatus' = steps[timers[t].index + 1]
    /\ timers' = [timers EXCEPT ![t].index = @ + 1,
                                 ![t].active = ~(timers[t].index + 1 >= Len(steps))]
    /\ UNCHANGED transferVars

\* A cancel handle that clears nothing.
cancelNothing(t) ==
    /\ t \in DOMAIN timers
    /\ timers' = [timers EXCEPT ![t].cancelled = TRUE]
    /\ UNCHANGED <<fileStatus, bucket, clock, requests, loads, loaderData, files,
                   filteredFiles, deleted, shownAfter>>

\* () => clearInterval(timer), the handle startFileStatusTimer returned for t.
cancel(t) ==
    /\ t \in DOMAIN timers
    /\ timers' = [timers EXCEPT ![t].active = FALSE, ![t].cancelled = TRUE]
    /\ UNCHANGED <<fileStatus, bucket, clock, requests, loads, loaderData, files,
                   filteredFiles, deleted, shownAfter>>

-----------------------------------------------------------------------------
(* Specifications *)

\* The bucket when the page is opened.
Stored == {[name |-> n, size |-> MAX_FILE_SIZE, lastModified |-> 0] : n \in Names}

\* The page after its first load of a bucket b.
Loaded(b, list) ==
    /\ bucket = b
    /\ clock = 0
    /\ requests = <<>>
    /\ loads = <<>>
    /\ loaderData = [hasFiles |-> TRUE, files |-> list, error |-> ""]
    /\ files = list
    /\ filteredFiles = sort(list)
    /\ deleted = {}
    /\ shownAfter = {}
    /\ timers = <<>>
    /\ fileStatus = 0

Init == Loaded(Stored, fileList(listObjects(Stored)))

Next ==
    \/ \E form \in PageForms : submit("_index", form, MaxMutations)
    \/ \E i \in 1..MaxMutations : action(i)
    \/ \E i \in 1..MaxMutations, outcome \in Outcomes : actionResume(i, outcome)
    \/ loader
    \/ \E k \in 1..MaxLoads, outcome \in Outcomes : loaderResume(k, outcome)
    \/ \E k \in 1..MaxLoads : Index(k)

Spec == Init /\ [][Next]_vars

NextAction ==
    \/ \E form \in Forms : submit("_index", form, MaxRequests)
    \/ \E i \in 1..MaxRequests : action(i)
    \/ \E i \in 1..MaxRequests, outcome \in Outcomes : actionResume(i, outcome)

SpecAction == Init /\ [][NextAction]_vars

NextPart000 ==
    \/ \E file \in Files : submit("part_000", [NoForm EXCEPT !.file = file], MaxRequests)
    \/ \E i \in 1..MaxRequests : action_part_000(i)
    \/ \E i \in 1..MaxRequests, outcome \in Outcomes : actionResume_part_000(i, outcome)
    \/ \E fileName \in {NULL, "a.txt"} : loader_part_000(fileName)
    \/ \E k \in 1..MaxLoads, outcome \in Outcomes : loaderResume_part_000(k, outcome)

SpecPart000 == Init /\ [][NextPart000]_vars

InitTimer == Loaded({}, <<>>)

NextTimer ==
    \/ startFileStatusTimer
    \/ \E t \in 1..MaxTimers : tick(t)
    \/ \E t \in 1..MaxTimers : cancel(t)

SpecTimer == InitTimer /\ [][NextTimer]_vars

InitSort == \E list \in Lists : Loaded({}, list)

NextSort == \E list \in Lists : navigate(list)

SpecSort == InitSort /\ [][NextSort]_vars

-----------------------------------------------------------------------------
(* Properties *)

namesOf(list) == {list[k].name : k \in DOMAIN list}

\* Request i runs the first step of its handler in this step.
Dispatched(i) == requests[i].pc = "Pending" /\ requests'[i].pc # "Pending"

\* The request is one its route treats as an upload.
IsUpload(r) ==
    /\ r.form.file # NoFile
    /\ r.route = "_index" => ~Truthy(r.form.fileName)

SizeLimitError == json(400, "File size exceeds 5MB limit")

\* C1: an upload whose file is larger than 5 MiB fails with the size-limit
\* error and no storage call is issued for it; a file of exactly 5 MiB is let
\* through to the upload.
C1_SizeLimit ==
    [][\A i \in DOMAIN requests :
          (Dispatched(i) /\ IsUpload(requests[i])) =>
              IF requests[i].form.file.size > MAX_FILE_SIZE
              THEN /\ requests'[i].pc = "Failed"
                   /\ requests'[i].response = SizeLimitError
                   /\ requests'[i].calls = 0
              ELSE /\ requests'[i].pc = "InProgress"
                   /\ requests'[i].op = uploadParams(requests[i].form.file)]_vars

\* C2 as stated: no two requests with the same (targetName, kind) are in
\* flight together.
C2_OneInFlightPerKey ==
    \A i, j \in DOMAIN requests :
        (i # j /\ requests[i].pc = "InProgress" /\ requests[j].pc = "InProgress")
            => ~(requests[i].op.kind = requests[j].op.kind
                 /\ requests[i].op.key = requests[j].op.key)

\* C2 as amended: an upload within the size limit is sent to the storage
\* service whatever else is in flight, the requests already there are left
\* as they are, and no request is ever answered OperationAlreadyInProgress.
C2_Independent ==
    /\ [](\A i \in DOMAIN requests :
             requests[i].response.error # "OperationAlreadyInProgress")
    /\ [][\A i \in DOMAIN requests :
             Dispatched(i) =>
                /\ (IsUpload(requests[i]) /\ requests[i].form.file.size <= MAX_FILE_SIZE)
                      => /\ requests'[i].pc = "InProgress"
                         /\ requests'[i].op = uploadParams(requests[i].form.file)
                         /\ requests'[i].calls = 1
                /\ \A j \in DOMAIN requests : j # i => requests'[j] = requests[j]]_vars

\* C2, its case: two uploads of the same name are in flight together.
C2_TwoUploadsInFlight ==
    \E i, j \in DOMAIN requests :
        /\ i # j
        /\ requests[i].pc = "InProgress" /\ requests[j].pc = "InProgress"
        /\ requests[i].op.kind = "upload" /\ requests[j].op.kind = "upload"
        /\ requests[i].op.key = requests[j].op.key

\* A step of the list shown that applies a failed refresh.
AppliesFailedRefresh ==
    \E k \in DOMAIN loads :
        loads[k].pc = "Returned" /\ loads'[k].pc = "Applied" /\ loads[k].data.error # ""

\* A step in which a request fails.
RequestFails ==
    \E i \in DOMAIN requests : requests[i].pc # "Failed" /\ requests'[i].pc = "Failed"

\* C3: a failed operation (upload, delete, or refresh) leaves the list shown
\* exactly as it was.
C3_FailureLeavesList ==
    [][(AppliesFailedRefresh \/ RequestFails)
          => (files' = files /\ filteredFiles' = filteredFiles)]_vars

C5_Monotone == [][fileStatus' >= fileStatus]_vars

\* C5 as amended: fileStatus stays within 0..5; each timer goes through the
\* stages 1, 2, 3, 4, 5 in order, one per tick, writing its own stage to
\* fileStatus, and stops after stage 5; fileStatus changes only when a timer
\* ticks.
C5_Stages ==
    /\ [](fileStatus \in 0..5)
    /\ [][/\ \A t \in DOMAIN timers :
               \/ timers'[t].index = timers[t].index
               \/ /\ timers[t].active
                  /\ timers'[t].index = timers[t].index + 1
                  /\ fileStatus' = timers'[t].index
                  /\ timers'[t].active = (timers'[t].index < 5)
          /\ fileStatus' # fileStatus =>
                \E t \in DOMAIN timers : timers'[t].index # timers[t].index]_vars

\* C5, its case: a timer started later writes its lower stage after an
\* earlier timer has reached a higher one.
C5_SecondTimerBehind ==
    \E t, u \in DOMAIN timers :
        /\ t < u
        /\ timers[u].index \in 1..4
        /\ timers[t].index > timers[u].index
        /\ fileStatus = timers[u].index

\* C6: once the cancel handle of a timer has been invoked, the timer makes no
\* further stage transition, at whichever tick it was cancelled; a timer that
\* is cancelled or has finished stays as it is when its handle is invoked
\* (again), and with every timer cancelled or finished fileStatus stays put.
C6_CancelStops ==
    [][/\ \A t \in DOMAIN timers :
            (timers[t].cancelled \/ ~timers[t].active) =>
                /\ timers'[t].index = timers[t].index
                /\ ~timers'[t].active
       /\ ((\A t \in DOMAIN timers : timers[t].cancelled \/ timers[t].index = 5)
              /\ Len(timers') = Len(timers))
            => fileStatus' = fileStatus]_vars

\* C6, its case: a timer has been cancelled between two of its stages.
C6_CancelledMidway ==
    \E t \in DOMAIN timers :
        timers[t].cancelled /\ ~timers[t].active /\ timers[t].index \in 1..4

position(list, name) == CHOOSE k \in DOMAIN list : list[k].name = name

\* C7: filteredFiles is a permutation of files in descending order of
\* lastModified, records of equal lastModified in the order files has them,
\* and files is the list as it arrived.
C7_SortedView ==
    /\ Len(filteredFiles) = Len(files)
    /\ {filteredFiles[k] : k \in DOMAIN filteredFiles} = {files[k] : k \in DOMAIN files}
    /\ \A p, q \in DOMAIN filteredFiles :
          p < q =>
             /\ getTime(filteredFiles[p].lastModified) >= getTime(filteredFiles[q].lastModified)
             /\ filteredFiles[p].lastModified = filteredFiles[q].lastModified
                   => position(files, filteredFiles[p].name)
                        < position(files, filteredFiles[q].name)
    /\ files = loaderData.files

\* C7, its case: three records, two of them of the same lastModified, arrive
\* in an order that is not the order shown.
C7_UnsortedWithTie ==
    /\ Len(files) = 3
    /\ files # filteredFiles
    /\ \E p, q \in DOMAIN files : p # q /\ files[p].lastModified = files[q].lastModified
    /\ \E p, q \in DOMAIN files : files[p].lastModified # files[q].lastModified

\* C8: no handler throws: every load and every request that has left its
\* handler has returned a response, and a failure is an error message with an
\* error status.
C8_NothingThrown ==
    /\ \A k \in DOMAIN loads : loads[k].pc # "Thrown" /\ ~loads[k].response.thrown
    /\ \A i \in DOMAIN requests :
          /\ ~requests[i].response.thrown
          /\ requests[i].pc = "Failed" =>
                (requests[i].response.status >= 400 /\ requests[i].response.error # "")

Terminal == {"Succeeded", "Failed"}

\* What C9 asks of every step besides the edges it may take.
SettledOnce(i) ==
    /\ requests[i].pc \in Terminal => requests'[i] = requests[i]
    /\ requests'[i].calls <= 1
    /\ requests[i].pc = "InProgress" => requests'[i].calls = requests[i].calls

\* C9 as stated: a request moves only along Pending -> InProgress ->
\* Succeeded | Failed, never leaves Succeeded or Failed, and the storage
\* service is called at most once for it.
C9_Lifecycle ==
    [][\A i \in DOMAIN requests :
          /\ \/ requests'[i].pc = requests[i].pc
             \/ <<requests[i].pc, requests'[i].pc>> \in
                   {<<"Pending", "InProgress">>, <<"InProgress", "Succeeded">>,
                    <<"InProgress", "Failed">>}
          /\ SettledOnce(i)]_vars

\* C9 as amended: as C9, and a request its handler turns down before any
\* storage call goes from Pending to Failed directly, with no call made.
C9_LifecycleAmended ==
    [][\A i \in DOMAIN requests :
          /\ \/ requests'[i].pc = requests[i].pc
             \/ <<requests[i].pc, requests'[i].pc>> \in
                   {<<"Pending", "InProgress">>, <<"InProgress", "Succeeded">>,
                    <<"InProgress", "Failed">>}
             \/ /\ <<requests[i].pc, requests'[i].pc>> = <<"Pending", "Failed">>
                /\ requests'[i].calls = 0
                /\ requests'[i].response.status = 400
          /\ SettledOnce(i)]_vars

\* C9, its case: one request has failed at the storage service after its one
\* call, another was turned down with none.
C9_FailedBothWays ==
    \E i, j \in DOMAIN requests :
        /\ requests[i].pc = "Failed" /\ requests[i].calls = 1
        /\ requests[j].pc = "Failed" /\ requests[j].calls = 0

\* C10: a request starts at most one storage operation, chosen in this order:
\* delete when action is "delete" and fileName is set; else a download link
\* when fileName is set; else an upload when file is set; else a 400 and no
\* storage call.
C10_Priority ==
    [][\A i \in DOMAIN requests :
          (Dispatched(i) /\ requests[i].route = "_index") =>
             LET f == requests[i].form
                 r == requests'[i]
             IN  /\ r.calls <= 1
                 /\ r.calls = 0 <=> r.op.kind = "none"
                 /\ IF f.action = "delete" /\ Truthy(f.fileName)
                       THEN r.op.kind = "delete" /\ r.op.key = f.fileName
                    ELSE IF Truthy(f.fileName)
                       THEN r.op.kind = "download" /\ r.op.key = f.fileName
                    ELSE IF f.file # NoFile
                       THEN r.op.kind \in {"upload", "none"}
                            /\ r.op.kind = "upload" => r.op.key = f.file.name
                    ELSE r.op.kind = "none" /\ r.pc = "Failed" /\ r.response.status = 400
                 /\ (Truthy(f.fileName) /\ f.file # NoFile) => r.op.kind # "upload"
                 /\ (f.action = "delete" /\ ~Truthy(f.fileName)) => r.op.kind # "delete"]_vars

\* C10, its case: a request carrying both fileName and file is in flight as
\* a delete or a download, and one with action "delete" and no fileName as
\* an upload.
C10_FieldsCompete ==
    /\ \E i \in DOMAIN requests :
          /\ requests[i].pc = "InProgress"
          /\ Truthy(requests[i].form.fileName) /\ requests[i].form.file # NoFile
          /\ requests[i].op.kind \in {"delete", "download"}
    /\ \E j \in DOMAIN requests :
          /\ requests[j].pc = "InProgress"
          /\ requests[j].form.action = "delete" /\ ~Truthy(requests[j].form.fileName)
          /\ requests[j].op.kind = "upload"

====
